---- MODULE Spec2Model ----
(***************************************************************************)
(* The MQTT synchronization broker of the worker package                   *)
(* (src/worker/broker.go): topic decoding, the subscribe event queue and   *)
(* its consumer loop, the write and replay handlers, the periodic          *)
(* publisher and PublishDSN.                                               *)
(*                                                                         *)
(* A Go string is a tuple of one-character strings, so that Split,         *)
(* TrimPrefix and concatenation act on it as they do in Go.                *)
(***************************************************************************)
EXTENDS Integers, Sequences, FiniteSets, TLC

----------------------------------------------------------------------------
(* Bounds of the model *)

\* topics handed to decodeTopicAPI have up to MaxSegs '/'-separated segments
MaxSegs == 4
\* a chain has 1..MaxBlocks blocks, a block 0..MaxTxs transactions
MaxBlocks == 2
MaxTxs == 3
\* replay requests ask for indices 0..MaxIndex
MaxIndex == 1
\* inbound messages, periodic ticks and collaborator failures per behaviour
MaxMsgs == 3
MaxTicks == 2
MaxFaults == 1
\* calls of Close per behaviour
MaxCloses == 2
\* rounds of the block loop followed for a replay whose range ends at the
\* largest int32
MaxRounds == 3

----------------------------------------------------------------------------
(* Strings *)

Slash == "/"

EmptyStr == <<>>

HasPrefix(s, prefix) ==
    /\ Len(s) >= Len(prefix)
    /\ SubSeq(s, 1, Len(prefix)) = prefix

TrimPrefix(s, prefix) ==
    IF HasPrefix(s, prefix) THEN SubSeq(s, Len(prefix) + 1, Len(s)) ELSE s

RECURSIVE SplitFrom(_, _, _, _)
SplitFrom(s, sep, i, cur) ==
    IF i > Len(s) THEN <<cur>>
    ELSE IF s[i] = sep THEN <<cur>> \o SplitFrom(s, sep, i + 1, <<>>)
    ELSE SplitFrom(s, sep, i + 1, Append(cur, s[i]))

\* strings.Split(s, sep) for a one-character separator: one more piece than
\* there are separators in s, the empty string giving one empty piece.
Split(s, sep) == SplitFrom(s, sep, 1, <<>>)

RECURSIVE Join(_, _)
Join(segs, sep) ==
    IF Len(segs) = 0 THEN <<>>
    ELSE IF Len(segs) = 1 THEN segs[1]
    ELSE segs[1] \o <<sep>> \o Join(Tail(segs), sep)

----------------------------------------------------------------------------
(* Constants of broker.go *)

MQTTNewest == <<"n", "e", "w", "e", "s", "t">>
DSNList == <<"d", "s", "n", "l", "i", "s", "t">>
MQTTWrite == <<"w", "r", "i", "t", "e">>
MQTTReplay == <<"r", "e", "p", "l", "a", "y">>
MQTTCreate == <<"c", "r", "e", "a", "t", "e">>
MQTTInvalid == <<>>

\* a broker that publishes under the prefix its clients publish under
publishPrefixOfClients == <<"/", "c", "q", "l", "/", "c", "l", "i", "e", "n", "t", "/">>

publishPrefix == <<"/", "c", "q", "l", "/", "m", "i", "n", "e", "r", "/">>
listenPrefix == <<"/", "c", "q", "l", "/", "c", "l", "i", "e", "n", "t", "/">>

----------------------------------------------------------------------------
(* decodeTopicAPI *)

ZeroTopic == [clientID |-> EmptyStr, databaseID |-> EmptyStr, apiName |-> MQTTInvalid]

\* decodeTopicAPI without its valid check
ValidCheckOff(apiName) == apiName

ValidCheck(apiName) ==
    IF apiName # MQTTWrite /\ apiName # MQTTReplay /\ apiName # MQTTCreate
    THEN MQTTInvalid
    ELSE apiName

\* decodeTopicAPI decoding the first three segments of a longer topic
decodeTopicAPIFirstThree(topic) ==
    LET args == Split(TrimPrefix(topic, listenPrefix), Slash)
        n == Len(args)
    IN  IF n < 3
        THEN ZeroTopic
        ELSE [clientID |-> args[1], databaseID |-> args[2],
              apiName |-> ValidCheck(args[3])]

decodeTopicAPI(topic) ==
    LET args == Split(TrimPrefix(topic, listenPrefix), Slash)
        n == Len(args)
        raw == CASE n = 1 -> [ZeroTopic EXCEPT !.clientID = args[1]]
                 [] n = 2 -> IF args[2] = MQTTCreate
                             THEN [ZeroTopic EXCEPT !.clientID = args[1],
                                                    !.apiName = MQTTCreate]
                             ELSE [ZeroTopic EXCEPT !.clientID = args[1],
                                                    !.databaseID = args[2]]
                 [] n = 3 -> [clientID |-> args[1], databaseID |-> args[2],
                              apiName |-> args[3]]
                 [] OTHER -> ZeroTopic
    IN  IF n = 0 \/ n > 3
        THEN ZeroTopic
        ELSE [raw EXCEPT !.apiName = ValidCheck(raw.apiName)]

----------------------------------------------------------------------------
(* Identifiers and data *)

nil == "nil"

\* config.User, the identity of this miner on the transport
thisNode == <<"m">>

Clients == {<<"a">>, <<"b">>}

\* the keys of dbms.dbMap; <<"z">> is a database nobody registered
Databases == {<<"x">>, <<"y">>}
UnknownDatabase == <<"z">>

\* types.Query: a statement and its arguments; encoding/json has no
\* encoding for a NaN argument
Q(arg) == [Pattern |-> "insert", Args |-> <<arg>>]

\* int32: incrementing the largest value wraps around to the smallest
MaxInt32 == 2147483647
MinInt32 == -MaxInt32 - 1

Int32Inc(x) == IF x = MaxInt32 THEN MinInt32 ELSE x + 1

\* BrokerPayload, every field at its zero value
ZeroPayload ==
    [BlockID |-> 0, BlockIndex |-> 0, ClientID |-> EmptyStr, ClientSequence |-> 0,
     Events |-> <<>>, BlockStart |-> 0, IndexStart |-> 0, BlockEnd |-> 0,
     IndexEnd |-> 0]

\* json.Marshal: an error for a value JSON cannot carry, the document otherwise
jsonMarshal(payload) ==
    IF \E i \in 1..Len(payload.Events) :
           \E j \in 1..Len(payload.Events[i].Args) : payload.Events[i].Args[j] = "NaN"
    THEN [err |-> "json: unsupported value", bytes |-> nil]
    ELSE [err |-> nil, bytes |-> [json |-> TRUE, doc |-> payload]]

\* json.Unmarshal into a BrokerPayload
jsonUnmarshal(bytes) ==
    IF bytes.json
    THEN [err |-> nil, payload |-> bytes.doc]
    ELSE [err |-> "invalid character", payload |-> ZeroPayload]

\* a transaction whose request header names database x whatever chain it
\* is in
TxOfOneDatabase(db, count, index, arg) ==
    [NodeID |-> IF (count + index) % 2 = 0 THEN <<"a">> ELSE <<"b">>,
     SeqNo |-> 10 * count + index + 1,
     DatabaseID |-> <<"x">>,
     Queries |-> <<Q(arg)>>]

\* a committed transaction: the request header's node, sequence number and
\* database, and the request payload's statements
Tx(db, count, index, arg) ==
    [NodeID |-> IF (count + index) % 2 = 0 THEN <<"a">> ELSE <<"b">>,
     SeqNo |-> 10 * count + index + 1,
     DatabaseID |-> db,
     Queries |-> <<Q(arg)>>]

\* the chain of db whose block at count c holds sizes[c + 1] transactions,
\* the one at position nan (if any) with a NaN argument
MkChain(db, sizes, nan) ==
    [c \in 1..Len(sizes) |->
        [QueryTxs |-> [i \in 1..sizes[c] |->
            Tx(db, c - 1, i - 1, IF nan = <<c - 1, i - 1>> THEN "NaN" ELSE "v")]]]

RECURSIVE SeqsUpTo(_, _)
SeqsUpTo(S, n) ==
    IF n = 0 THEN {<<>>}
    ELSE LET shorter == SeqsUpTo(S, n - 1)
         IN  shorter \cup {Append(s, x) : s \in {t \in shorter : Len(t) = n - 1}, x \in S}

ChainSizes == SeqsUpTo(0..MaxTxs, MaxBlocks) \ {<<>>}

\* the chains of the periodic publisher's specification: all blocks but the
\* most recent one hold one transaction
TickSizes == {s \in ChainSizes : \A c \in 1..(Len(s) - 1) : s[c] = 1}

Positions(sizes) == {<<c - 1, i - 1>> : c \in 1..Len(sizes), i \in 1..MaxTxs}

NanChoices(sizes) ==
    {<<>>} \cup {p \in Positions(sizes) : p[2] < sizes[p[1] + 1]}

----------------------------------------------------------------------------
(* State *)

VARIABLES
    chain,      \* dbms.dbMap: database ID -> the blocks of its chain
    queue,      \* subscribeEventQueue: the events pushed and not yet received
    cb,         \* per transport thread: the subscribe callback it is running
    loop,       \* subscribeEventLoop and the handler it is in
    upd,        \* updateBlockLoop
    tst,        \* a direct caller of PublishDSN
    calls,      \* per thread: the collaborator calls it made, in order
    env,        \* the environment's counters: messages, ticks, failures
    life        \* what Close acts on, and the caller of Close

vars == <<chain, queue, cb, loop, upd, tst, calls, env, life>>

Producers == {"t1", "t2"}
Threads == {"loop", "upd", "tst"}

IdleCb == [pc |-> "idle", msg |-> nil, decoded |-> ZeroTopic, pushed |-> 0]

IdleLoop ==
    [pc |-> "recv", ptr |-> <<>>, event |-> nil, blockIndex |-> 0, block |-> nil,
     realCount |-> 0, index |-> 0]

IdleUpd ==
    [pc |-> "timer", todo |-> {}, db |-> EmptyStr, block |-> nil, realCount |-> 0,
     index |-> 0, err |-> nil]

IdleTst == [pc |-> "idle", args |-> nil, ret |-> nil]

NoCalls == [t \in Threads |-> <<>>]

NoEnv == [msgs |-> 0, ticks |-> 0, faults |-> 0]

\* the broker as NewMQTTClient returns it: connected, subscribed to the listen
\* topic, updateCtx not cancelled, the queue open; nobody is in Close
Live ==
    [connected |-> TRUE, subscribed |-> TRUE, cancelled |-> FALSE, closes |-> 0,
     late |-> 0, pc |-> "idle", returned |-> 0]

\* a collaborator may fail while the behaviour has failures left
FaultChoices == IF env.faults < MaxFaults THEN {FALSE, TRUE} ELSE {FALSE}

Fault(fail) == IF fail THEN [env EXCEPT !.faults = @ + 1] ELSE env

Log(t, entries) == [calls EXCEPT ![t] = @ \o entries]

----------------------------------------------------------------------------
(* Collaborators *)

\* DBMS.getMeta and dbMap.Load: the registered database, if there is one
getMeta(dbID) == dbID \in DOMAIN chain

\* a registry lookup that falls back to a registered database
dbMapLoadAny(dbID) ==
    [ok |-> TRUE,
     db |-> IF dbID \in DOMAIN chain THEN dbID ELSE CHOOSE d \in DOMAIN chain : TRUE]

\* dbms.dbMap.Load in processReplayEvent: the database registered under the
\* key, and whether there is one
dbMapLoad(dbID) ==
    IF dbID \in DOMAIN chain
    THEN [ok |-> TRUE, db |-> dbID]
    ELSE [ok |-> FALSE, db |-> EmptyStr]

\* Chain.FetchBlockByCount: the block at the count, the most recent block for a
\* negative count, with the count it resolved to
FetchBlockByCount(ch, count) ==
    IF count < 0
    THEN [block |-> ch[Len(ch)], realCount |-> Len(ch) - 1, err |-> nil]
    ELSE IF count < Len(ch)
    THEN [block |-> ch[count + 1], realCount |-> count, err |-> nil]
    ELSE [block |-> nil, realCount |-> count, err |-> "block not found"]

\* a fetch that goes through the query executor
FetchEntryAsQuery(db, count, for, err) ==
    [op |-> "Query", db |-> db, count |-> count, for |-> for, err |-> err]

FetchEntry(db, count, for, err) ==
    [op |-> "FetchBlockByCount", db |-> db, count |-> count, for |-> for, err |-> err]

\* mqtt.Token.Wait blocks until the token is complete and then reports true
Wait(token) == TRUE

----------------------------------------------------------------------------
(* PublishDSN *)

PublishTopicPrefix == publishPrefix \o thisNode \o <<Slash>>

\* PublishDSN appending the request client to the newest topic too
PublishDSNCallSuffixed(apiName, databaseID, payload, requestClient) ==
    LET m == jsonMarshal(payload)
    IN  IF m.err # nil \/ apiName \notin {MQTTNewest, MQTTReplay}
        THEN [sent |-> FALSE, topic |-> nil, qos |-> 0, retained |-> FALSE,
              bytes |-> nil, ret |-> "error"]
        ELSE [sent |-> TRUE,
              topic |-> PublishTopicPrefix \o databaseID \o <<Slash>> \o apiName
                        \o <<Slash>> \o requestClient,
              qos |-> 1, retained |-> TRUE, bytes |-> m.bytes, ret |-> nil]

\* PublishDSN publishing whatever the intent is
PublishDSNCallAnyIntent(apiName, databaseID, payload, requestClient) ==
    LET m == jsonMarshal(payload)
    IN  IF m.err # nil
        THEN [sent |-> FALSE, topic |-> nil, qos |-> 0, retained |-> FALSE,
              bytes |-> nil, ret |-> m.err]
        ELSE [sent |-> TRUE,
              topic |-> PublishTopicPrefix \o databaseID \o <<Slash>> \o apiName
                        \o (IF apiName = MQTTNewest THEN <<>>
                            ELSE <<Slash>> \o requestClient),
              qos |-> 1, retained |-> TRUE, bytes |-> m.bytes, ret |-> nil]

\* PublishDSN up to its call of the transport: the error it returns without
\* publishing, or the topic, quality of service, retained flag and bytes of
\* the publish
PublishDSNCall(apiName, databaseID, payload, requestClient) ==
    LET m == jsonMarshal(payload)
        none == [sent |-> FALSE, topic |-> nil, qos |-> 0, retained |-> FALSE,
                 bytes |-> nil, ret |-> nil]
    IN  IF m.err # nil
        THEN [none EXCEPT !.ret = m.err]
        ELSE CASE apiName = MQTTNewest ->
                    [sent |-> TRUE,
                     topic |-> PublishTopicPrefix \o databaseID \o <<Slash>> \o apiName,
                     qos |-> 1, retained |-> TRUE, bytes |-> m.bytes, ret |-> nil]
               [] apiName = MQTTReplay ->
                    [sent |-> TRUE,
                     topic |-> PublishTopicPrefix \o databaseID \o <<Slash>> \o apiName
                               \o <<Slash>> \o requestClient,
                     qos |-> 1, retained |-> TRUE, bytes |-> m.bytes, ret |-> nil]
               [] OTHER ->
                    [none EXCEPT !.ret = "Invalid miner push api name"]

\* PublishDSN after the transport completed the token with tokenErr
PublishDSNReturn(tokenErr) ==
    IF ~Wait(tokenErr) THEN tokenErr ELSE nil

\* the log entry of a call of PublishDSN; done is false while the token of
\* its publish is pending
PublishEntry(apiName, databaseID, payload, requestClient, for) ==
    LET c == PublishDSNCall(apiName, databaseID, payload, requestClient)
    IN  [op |-> "PublishDSN", apiName |-> apiName, databaseID |-> databaseID,
         payload |-> payload, requestClient |-> requestClient, for |-> for,
         sent |-> c.sent, topic |-> c.topic, qos |-> c.qos, retained |-> c.retained,
         bytes |-> c.bytes, done |-> ~c.sent, tokenErr |-> nil, ret |-> c.ret]

\* the transport completes the pending publish of thread t
Complete(t, fail) ==
    LET n == Len(calls[t])
        tokenErr == IF ~life.connected THEN "not connected"
                    ELSE IF fail THEN "ack failed" ELSE nil
    IN  [calls EXCEPT ![t][n].done = TRUE,
                      ![t][n].tokenErr = tokenErr,
                      ![t][n].ret = PublishDSNReturn(tokenErr)]

LastRet(cs, t) == cs[t][Len(cs[t])].ret

----------------------------------------------------------------------------
(* subscribeCallback *)

\* a queue handing out the newest value first
PushFront(q, v) == <<v>> \o q

\* a queue taking every value twice
PushTwice(q, v) == Append(Append(q, v), v)

\* gqueue.Queue.Push: the value joins the queue behind those already in it
Push(q, v) == Append(q, v)

\* the transport invokes the callback on thread p with message m
Receive(p, m) ==
    /\ life.subscribed
    /\ cb[p].pc = "idle"
    /\ env.msgs < MaxMsgs
    /\ cb' = [cb EXCEPT ![p].pc = "called", ![p].msg = m]
    /\ env' = [env EXCEPT !.msgs = @ + 1]
    /\ UNCHANGED <<chain, queue, loop, upd, tst, calls, life>>

CallbackDecode(p) ==
    /\ cb[p].pc = "called"
    /\ cb' = [cb EXCEPT ![p].pc = "decoded",
                        ![p].decoded = decodeTopicAPI(cb[p].msg.topic)]
    /\ UNCHANGED <<chain, queue, loop, upd, tst, calls, env, life>>

\* a callback that pushes an event for every message
AcceptsAll(d, msg) == TRUE

\* a callback that does not look at the decoded intent
AcceptsAnyIntent(d, msg) == jsonUnmarshal(msg.payload).err = nil

\* whether the callback pushes an event for the message it decoded to d
Accepts(d, msg) == d.apiName # EmptyStr /\ jsonUnmarshal(msg.payload).err = nil

CallbackPush(p) ==
    /\ cb[p].pc = "decoded"
    /\ LET d == cb[p].decoded
           u == jsonUnmarshal(cb[p].msg.payload)
           event == [ApiName |-> d.apiName, ClientID |-> d.clientID,
                     DatabaseID |-> d.databaseID, Payload |-> u.payload]
       IN  IF ~Accepts(d, cb[p].msg)
           THEN /\ cb' = [cb EXCEPT ![p] = [IdleCb EXCEPT !.pushed = cb[p].pushed]]
                /\ UNCHANGED <<queue, life>>
           ELSE IF life.closes = 0
           THEN /\ queue' = Push(queue, [ptr |-> <<p, cb[p].pushed + 1>>, event |-> event])
                /\ cb' = [cb EXCEPT ![p] = [IdleCb EXCEPT !.pushed = cb[p].pushed + 1]]
                /\ life' = life
           ELSE \* a push on the closed queue: the value is not handed out
                /\ cb' = [cb EXCEPT ![p] = [IdleCb EXCEPT !.pushed = cb[p].pushed]]
                /\ life' = [life EXCEPT !.late = @ + 1]
                /\ queue' = queue
    /\ UNCHANGED <<chain, loop, upd, tst, calls, env>>

----------------------------------------------------------------------------
(* subscribeEventLoop, processWriteEvent, processCreateEvent *)

\* a request that drops the client's sequence number
WriteRequestNoSeq(event) ==
    [QueryType |-> "WriteQuery", NodeID |-> event.ClientID,
     DatabaseID |-> event.DatabaseID, ConnectionID |-> 0,
     SeqNo |-> 0, Queries |-> event.Payload.Events]

\* the request processWriteEvent builds (its timestamp, the local clock, is
\* left out)
WriteRequest(event) ==
    [QueryType |-> "WriteQuery", NodeID |-> event.ClientID,
     DatabaseID |-> event.DatabaseID, ConnectionID |-> 0,
     SeqNo |-> event.Payload.ClientSequence, Queries |-> event.Payload.Events]

\* a write handler that submits the request without looking the database up
processWriteEventNoLookup(ptr, event, fail) ==
    <<[op |-> "Query", db |-> event.DatabaseID, for |-> ptr,
       req |-> WriteRequest(event),
       err |-> IF fail THEN "query failed" ELSE nil]>>

\* the calls of processWriteEvent: none for a database that is not
\* registered, one Database.Query otherwise
processWriteEvent(ptr, event, fail) ==
    IF ~getMeta(event.DatabaseID)
    THEN <<>>
    ELSE <<[op |-> "Query", db |-> event.DatabaseID, for |-> ptr,
            req |-> WriteRequest(event),
            err |-> IF fail THEN "query failed" ELSE nil]>>

\* a loop that ends when a handler fails
AfterHandlerStopOnError(err) ==
    IF err = nil THEN IdleLoop ELSE [IdleLoop EXCEPT !.pc = "stopped"]

\* the loop after a handler returned: the handlers return nothing, and the
\* loop goes on to its next receive whatever err the handler ended on
AfterHandler(err) == IdleLoop

\* the error a handler logs and returns on before any chain call, nil if none
HandlerErr(h, event, fail) ==
    IF \/ h = "processWriteEvent" /\ ~getMeta(event.DatabaseID)
       \/ h = "processReplayEvent" /\ ~dbMapLoad(event.DatabaseID).ok
    THEN "database not exist"
    ELSE IF h = "processWriteEvent" /\ fail THEN "query failed"
    ELSE nil

\* a switch that hands Create events to the write handler
HandlerCreateAsWrite(apiName) ==
    CASE apiName \in {MQTTWrite, MQTTCreate} -> "processWriteEvent"
      [] apiName = MQTTReplay -> "processReplayEvent"
      [] OTHER -> "unknown"

Handler(apiName) ==
    CASE apiName = MQTTWrite -> "processWriteEvent"
      [] apiName = MQTTReplay -> "processReplayEvent"
      [] apiName = MQTTCreate -> "processCreateEvent"
      [] OTHER -> "unknown"

\* the channel hands over the oldest value of the queue
Pop(q) == Head(q)

Rest(q) == Tail(q)

\* a loop that receives the next event while a replay waits for its publish,
\* and puts the waiting replay back at the end of the queue
DispatchPreempting ==
    /\ loop.pc \in {"recv", "replayWait"}
    /\ queue # <<>>
    /\ LET ptr == Pop(queue).ptr
           event == Pop(queue).event
           h == Handler(event.ApiName)
           entry == [op |-> "dispatch", for |-> ptr, event |-> event, handler |-> h]
       IN  /\ queue' = IF loop.pc = "recv" THEN Rest(queue)
                        ELSE Append(Rest(queue), [ptr |-> loop.ptr, event |-> loop.event])
           /\ \E fail \in FaultChoices :
                /\ fail => h = "processWriteEvent" /\ getMeta(event.DatabaseID)
                /\ env' = Fault(fail)
                /\ calls' = Log("loop", <<entry>> \o
                               (IF h = "processWriteEvent"
                                THEN processWriteEvent(ptr, event, fail) ELSE <<>>))
                /\ loop' = IF h = "processReplayEvent" /\ dbMapLoad(event.DatabaseID).ok
                           THEN [IdleLoop EXCEPT !.pc = "replayFor", !.ptr = ptr,
                                                 !.event = event,
                                                 !.blockIndex = event.Payload.BlockStart]
                           ELSE AfterHandler(HandlerErr(h, event, fail))
    /\ UNCHANGED <<chain, cb, upd, tst, life>>

\* a loop that hands Write and Create events to their handlers while a replay
\* waits for its publish
DispatchWhileWaiting ==
    /\ loop.pc \in {"recv", "replayWait"}
    /\ queue # <<>>
    /\ LET ptr == Pop(queue).ptr
           event == Pop(queue).event
           h == Handler(event.ApiName)
           entry == [op |-> "dispatch", for |-> ptr, event |-> event, handler |-> h]
       IN  /\ loop.pc = "replayWait" => h # "processReplayEvent"
           /\ queue' = Rest(queue)
           /\ \E fail \in FaultChoices :
                /\ fail => h = "processWriteEvent" /\ getMeta(event.DatabaseID)
                /\ env' = Fault(fail)
                /\ calls' = Log("loop", <<entry>> \o
                               (IF h = "processWriteEvent"
                                THEN processWriteEvent(ptr, event, fail) ELSE <<>>))
                /\ loop' = IF loop.pc = "replayWait" THEN loop
                           ELSE IF h = "processReplayEvent" /\ dbMapLoad(event.DatabaseID).ok
                           THEN [IdleLoop EXCEPT !.pc = "replayFor", !.ptr = ptr,
                                                 !.event = event,
                                                 !.blockIndex = event.Payload.BlockStart]
                           ELSE AfterHandler(HandlerErr(h, event, fail))
    /\ UNCHANGED <<chain, cb, upd, tst, life>>

\* one receive of the loop and the switch on the event's ApiName; the write
\* and create handlers run to their end, the replay handler up to its loop
Dispatch ==
    /\ loop.pc = "recv"
    /\ queue # <<>>
    /\ LET ptr == Pop(queue).ptr
           event == Pop(queue).event
           h == Handler(event.ApiName)
           entry == [op |-> "dispatch", for |-> ptr, event |-> event, handler |-> h]
       IN  /\ queue' = Rest(queue)
           /\ \E fail \in FaultChoices :
                /\ fail => h = "processWriteEvent" /\ getMeta(event.DatabaseID)
                /\ env' = Fault(fail)
                /\ calls' = Log("loop", <<entry>> \o
                               (IF h = "processWriteEvent"
                                THEN processWriteEvent(ptr, event, fail) ELSE <<>>))
                /\ loop' = IF h = "processReplayEvent" /\ dbMapLoad(event.DatabaseID).ok
                           THEN [IdleLoop EXCEPT !.pc = "replayFor", !.ptr = ptr,
                                                 !.event = event,
                                                 !.blockIndex = event.Payload.BlockStart]
                           ELSE AfterHandler(HandlerErr(h, event, fail))
    /\ UNCHANGED <<chain, cb, upd, tst, life>>

\* gqueue.Queue.C of a closed queue: the channel ends once the values pushed
\* before the close are handed out
ChannelEnded == life.closes > 0 /\ queue = <<>>

\* a range that ends as soon as the queue is closed
LoopExitUndrained ==
    /\ loop.pc = "recv"
    /\ life.closes > 0
    /\ loop' = [IdleLoop EXCEPT !.pc = "exited"]
    /\ UNCHANGED <<chain, queue, cb, upd, tst, calls, env, life>>

\* the range over the queue's channel ends: the queue is closed and holds no
\* value
LoopExit ==
    /\ loop.pc = "recv"
    /\ ChannelEnded
    /\ loop' = [IdleLoop EXCEPT !.pc = "exited"]
    /\ UNCHANGED <<chain, queue, cb, upd, tst, calls, env, life>>

----------------------------------------------------------------------------
(* processReplayEvent *)

\* the count processReplayEvent asks the chain for
ReplayFetchCount(blockIndex) == -1

\* the client a replayed payload is published to
ReplayRequestClient(event, payload) == payload.ClientID

\* the header of the block loop: its end, or the fetch of the next block
ReplayFor ==
    /\ loop.pc = "replayFor"
    /\ IF loop.blockIndex <= loop.event.Payload.BlockEnd
       THEN \E fail \in FaultChoices :
              LET dbID == dbMapLoad(loop.event.DatabaseID).db
                  count == ReplayFetchCount(loop.blockIndex)
                  f == FetchBlockByCount(chain[dbID], count)
                  err == IF fail THEN "fetch failed" ELSE f.err
              IN  /\ env' = Fault(fail)
                  /\ calls' = Log("loop", <<FetchEntry(dbID, count, loop.ptr, err)>>)
                  /\ loop' = IF err # nil
                             THEN AfterHandler(err)
                             ELSE [loop EXCEPT !.pc = "replayRange", !.block = f.block,
                                               !.realCount = f.realCount, !.index = 0]
       ELSE /\ loop' = AfterHandler(nil)
            /\ UNCHANGED <<calls, env>>
    /\ UNCHANGED <<chain, queue, cb, upd, tst, life>>

\* a payload that leaves the transaction's position in its block at zero
TxPayloadNoPosition(realCount, index, qat) ==
    [ZeroPayload EXCEPT !.BlockID = realCount,
                        !.ClientID = qat.NodeID, !.ClientSequence = qat.SeqNo,
                        !.Events = qat.Queries]

\* the payload built from the transaction at index of a fetched block
TxPayload(realCount, index, qat) ==
    [ZeroPayload EXCEPT !.BlockID = realCount, !.BlockIndex = index,
                        !.ClientID = qat.NodeID, !.ClientSequence = qat.SeqNo,
                        !.Events = qat.Queries]

\* a filter that applies indexStart and indexEnd in every block
ReplayFilterEveryBlock(blockIndex, index, bStart, bEnd, iStart, iEnd) ==
    IF index < iStart THEN "skip"
    ELSE IF index > iEnd THEN "return"
    ELSE "publish"

\* the range filter of the replay: "skip", "return" or "publish"
ReplayFilter(blockIndex, index, bStart, bEnd, iStart, iEnd) ==
    IF blockIndex = bStart
    THEN IF index < iStart THEN "skip" ELSE "publish"
    ELSE IF blockIndex = bEnd
    THEN IF index > iEnd THEN "return" ELSE "publish"
    ELSE "publish"

\* one round of the loop over the block's transactions, up to the publish
ReplayRange ==
    /\ loop.pc = "replayRange"
    /\ LET txs == loop.block.QueryTxs
           req == loop.event.Payload
       IN  IF loop.index >= Len(txs)
           THEN /\ loop' = [loop EXCEPT !.pc = "replayFor",
                                        !.blockIndex = Int32Inc(loop.blockIndex)]
                /\ calls' = calls
           ELSE LET qat == txs[loop.index + 1]
                    payload == TxPayload(loop.realCount, loop.index, qat)
                    what == ReplayFilter(loop.blockIndex, loop.index, req.BlockStart,
                                         req.BlockEnd, req.IndexStart, req.IndexEnd)
                    entry == PublishEntry(MQTTReplay, qat.DatabaseID, payload,
                                          ReplayRequestClient(loop.event, payload),
                                          loop.ptr)
                IN  CASE what = "skip" ->
                           /\ loop' = [loop EXCEPT !.index = @ + 1]
                           /\ calls' = calls
                      [] what = "return" ->
                           /\ loop' = AfterHandler(nil)
                           /\ calls' = calls
                      [] OTHER ->
                           /\ calls' = Log("loop", <<entry>>)
                           /\ loop' = IF entry.sent
                                      THEN [loop EXCEPT !.pc = "replayWait"]
                                      ELSE AfterHandler(entry.ret)
    /\ UNCHANGED <<chain, queue, cb, upd, tst, env, life>>

\* a PublishDSN that returns to the replay without waiting for the token
ReplayWaitNoWait ==
    /\ loop.pc = "replayWait"
    /\ loop' = [loop EXCEPT !.pc = "replayRange", !.index = @ + 1]
    /\ UNCHANGED <<chain, queue, cb, upd, tst, calls, env, life>>

\* the publish completes and PublishDSN returns to the replay
ReplayWait ==
    /\ loop.pc = "replayWait"
    /\ \E fail \in FaultChoices :
         /\ env' = Fault(fail)
         /\ calls' = Complete("loop", fail)
         /\ loop' = IF LastRet(calls', "loop") # nil
                    THEN AfterHandler(LastRet(calls', "loop"))
                    ELSE [loop EXCEPT !.pc = "replayRange", !.index = @ + 1]
    /\ UNCHANGED <<chain, queue, cb, upd, tst, life>>

----------------------------------------------------------------------------
(* updateBlockLoop *)

\* a loop that returns when a tick ends on an error
AfterTickStopOnError(err) ==
    IF err = nil THEN IdleUpd ELSE [IdleUpd EXCEPT !.pc = "returned"]

\* the loop after dbMap.Range returned: at its select again, whatever err the
\* iteration ended on
AfterTick(err) == IdleUpd

\* a publisher that remembers the databases it has published for and visits
\* only the others
TickSkippingPublished ==
    /\ upd.pc = "timer"
    /\ ~life.cancelled
    /\ env.ticks < MaxTicks
    /\ env' = [env EXCEPT !.ticks = @ + 1]
    /\ upd' = [IdleUpd EXCEPT
                 !.pc = "range",
                 !.todo = {db \in DOMAIN chain :
                              \A i \in 1..Len(calls["upd"]) :
                                  calls["upd"][i].op = "PublishDSN"
                                  => calls["upd"][i].databaseID # db}]
    /\ UNCHANGED <<chain, queue, cb, loop, tst, calls, life>>

\* a timer that fires whether or not updateCtx is done
TickIgnoringCancel ==
    /\ upd.pc = "timer"
    /\ env.ticks < MaxTicks
    /\ env' = [env EXCEPT !.ticks = @ + 1]
    /\ upd' = [IdleUpd EXCEPT !.pc = "range", !.todo = DOMAIN chain]
    /\ UNCHANGED <<chain, queue, cb, loop, tst, calls, life>>

\* the timer fires and dbMap.Range starts over the registered databases; the
\* period being positive, the timer started at the select is not due when
\* updateCtx is already done
Tick ==
    /\ upd.pc = "timer"
    /\ ~life.cancelled
    /\ env.ticks < MaxTicks
    /\ env' = [env EXCEPT !.ticks = @ + 1]
    /\ upd' = [IdleUpd EXCEPT !.pc = "range", !.todo = DOMAIN chain]
    /\ UNCHANGED <<chain, queue, cb, loop, tst, calls, life>>

\* dbMap.Range hands the next database, in no particular order, to the
\* function, which fetches its most recent block
UpdRange ==
    /\ upd.pc = "range"
    /\ IF upd.todo = {}
       THEN /\ upd' = AfterTick(nil)
            /\ UNCHANGED <<calls, env>>
       ELSE \E dbID \in upd.todo, fail \in FaultChoices :
              LET f == FetchBlockByCount(chain[dbID], -1)
                  err == IF fail THEN "fetch failed" ELSE f.err
              IN  /\ env' = Fault(fail)
                  /\ calls' = Log("upd", <<FetchEntry(dbID, -1, env.ticks, err)>>)
                  /\ upd' = IF err # nil
                            THEN AfterTick(err)
                            ELSE [upd EXCEPT !.pc = "txs", !.todo = @ \ {dbID},
                                             !.db = dbID, !.block = f.block,
                                             !.realCount = f.realCount, !.index = 0,
                                             !.err = nil]
    /\ UNCHANGED <<chain, queue, cb, loop, tst, life>>

\* what the function given to dbMap.Range returns after the block's
\* transactions: whether the iteration goes on
UpdContinue(err) == err = nil

\* one round of the loop over the block's transactions, up to the publish
UpdTxs ==
    /\ upd.pc = "txs"
    /\ LET txs == upd.block.QueryTxs
       IN  IF upd.index >= Len(txs)
           THEN /\ upd' = IF UpdContinue(upd.err)
                          THEN [upd EXCEPT !.pc = "range"]
                          ELSE AfterTick(upd.err)
                /\ calls' = calls
           ELSE LET qat == txs[upd.index + 1]
                    payload == TxPayload(upd.realCount, upd.index, qat)
                    entry == PublishEntry(MQTTNewest, qat.DatabaseID, payload,
                                          payload.ClientID, env.ticks)
                IN  /\ calls' = Log("upd", <<entry>>)
                    /\ upd' = IF entry.sent
                              THEN [upd EXCEPT !.pc = "wait"]
                              ELSE [upd EXCEPT !.err = entry.ret, !.index = @ + 1]
    /\ UNCHANGED <<chain, queue, cb, loop, tst, env, life>>

\* the publish completes and PublishDSN returns to the loop over the
\* transactions
UpdWait ==
    /\ upd.pc = "wait"
    /\ \E fail \in FaultChoices :
         /\ env' = Fault(fail)
         /\ calls' = Complete("upd", fail)
         /\ upd' = [upd EXCEPT !.pc = "txs", !.err = LastRet(calls', "upd"),
                               !.index = @ + 1]
    /\ UNCHANGED <<chain, queue, cb, loop, tst, life>>

\* the select finds updateCtx done and the loop returns
UpdReturn ==
    /\ upd.pc = "timer"
    /\ life.cancelled
    /\ upd' = [IdleUpd EXCEPT !.pc = "returned"]
    /\ UNCHANGED <<chain, queue, cb, loop, tst, calls, env, life>>

----------------------------------------------------------------------------
(* Close *)

\* Close is called and cancels updateCtx
CloseCancel ==
    /\ life.pc = "idle"
    /\ life.returned < MaxCloses
    /\ life' = [life EXCEPT !.cancelled = TRUE, !.pc = "unsubscribe"]
    /\ UNCHANGED <<chain, queue, cb, loop, upd, tst, calls, env>>

\* the transport removes the subscription and completes the token
CloseUnsubscribe ==
    /\ life.pc = "unsubscribe"
    /\ life' = [life EXCEPT !.subscribed = FALSE, !.pc = "queue"]
    /\ UNCHANGED <<chain, queue, cb, loop, upd, tst, calls, env>>

\* subscribeEventQueue.Close()
CloseQueue ==
    /\ life.pc = "queue"
    /\ life' = [life EXCEPT !.closes = @ + 1, !.pc = "disconnect"]
    /\ UNCHANGED <<chain, queue, cb, loop, upd, tst, calls, env>>

\* Disconnect, and Close returns
CloseDisconnect ==
    /\ life.pc = "disconnect"
    /\ life' = [life EXCEPT !.connected = FALSE, !.pc = "idle", !.returned = @ + 1]
    /\ UNCHANGED <<chain, queue, cb, loop, upd, tst, calls, env>>

CloseStep == CloseCancel \/ CloseUnsubscribe \/ CloseQueue \/ CloseDisconnect

----------------------------------------------------------------------------
(* A direct call of PublishDSN *)

TstCall ==
    /\ tst.pc = "call"
    /\ LET a == tst.args
           entry == PublishEntry(a.apiName, a.databaseID, a.payload, a.requestClient,
                                 "tst")
       IN  /\ calls' = Log("tst", <<entry>>)
           /\ tst' = IF entry.sent
                     THEN [tst EXCEPT !.pc = "wait"]
                     ELSE [tst EXCEPT !.pc = "returned", !.ret = entry.ret]
    /\ UNCHANGED <<chain, queue, cb, loop, upd, env, life>>

TstWait ==
    /\ tst.pc = "wait"
    /\ \E fail \in FaultChoices :
         /\ env' = Fault(fail)
         /\ calls' = Complete("tst", fail)
         /\ tst' = [tst EXCEPT !.pc = "returned", !.ret = LastRet(calls', "tst")]
    /\ UNCHANGED <<chain, queue, cb, loop, upd, life>>

----------------------------------------------------------------------------
(* Inbound messages *)

Bytes(payload) == [json |-> TRUE, doc |-> payload]

Garbage == [json |-> FALSE, doc |-> nil]

Topic(segs) == listenPrefix \o Join(segs, Slash)

WriteMsg(clientID, databaseID, seq) ==
    [topic |-> Topic(<<clientID, databaseID, MQTTWrite>>),
     payload |-> Bytes([ZeroPayload EXCEPT !.ClientID = clientID,
                                           !.ClientSequence = seq,
                                           !.Events = <<Q("w")>>])]

ReplayMsg(clientID, databaseID, bStart, iStart, bEnd, iEnd) ==
    [topic |-> Topic(<<clientID, databaseID, MQTTReplay>>),
     payload |-> Bytes([ZeroPayload EXCEPT !.ClientID = clientID,
                                           !.BlockStart = bStart, !.IndexStart = iStart,
                                           !.BlockEnd = bEnd, !.IndexEnd = iEnd])]

\* the messages of the broker's specification
Msgs ==
    {WriteMsg(<<"a">>, <<"x">>, 7),
     WriteMsg(<<"a">>, UnknownDatabase, 9),
     ReplayMsg(<<"b">>, <<"x">>, 0, 0, 1, 0),
     [topic |-> Topic(<<(<<"b">>), (<<"x">>), MQTTCreate>>),
      payload |-> Bytes(ZeroPayload)],
     [topic |-> Topic(<<(<<"a">>)>>), payload |-> Bytes(ZeroPayload)],
     [topic |-> Topic(<<(<<"a">>), (<<"x">>), MQTTWrite>>), payload |-> Garbage]}

\* the messages received while Close may be called: a write and a replay of
\* one transaction
CloseMsgs ==
    {WriteMsg(<<"a">>, <<"x">>, 7),
     ReplayMsg(<<"b">>, <<"x">>, 1, 1, 1, 1)}

\* the replay requests of the replay specification, one of them with a block
\* between its first and its last
ReplayMsgs ==
    {ReplayMsg(<<"a">>, db, bStart, iStart, bEnd, iEnd) :
        db \in {<<"x">>, UnknownDatabase},
        bStart \in 0..(MaxBlocks - 1), bEnd \in 0..(MaxBlocks - 1),
        iStart \in 0..MaxIndex, iEnd \in 0..MaxIndex}
    \cup {ReplayMsg(<<"a">>, <<"x">>, 0, 1, 2, 0)}

\* the topics of the decoding specification: a prefix, or none, and up to
\* MaxSegs segments joined by '/'
Segments ==
    {EmptyStr, <<"a">>, <<"x">>, MQTTWrite, MQTTReplay, MQTTCreate, MQTTNewest}

DecodeTopics ==
    {prefix \o Join(segs, Slash) :
        prefix \in {listenPrefix, EmptyStr, publishPrefix},
        segs \in SeqsUpTo(Segments, MaxSegs)}

\* the arguments of the direct calls of PublishDSN
TstArgs ==
    [apiName : {MQTTNewest, DSNList, MQTTWrite, MQTTReplay, MQTTCreate, MQTTInvalid},
     databaseID : Databases \cup {UnknownDatabase},
     payload : {TxPayload(1, 0, Tx(<<"x">>, 1, 0, arg)) : arg \in {"v", "NaN"}},
     requestClient : Clients \cup {EmptyStr}]

----------------------------------------------------------------------------
(* Specifications *)

\* The ingest path of the broker after NewMQTTClient: the topic subscribed
\* and subscribeEventLoop started; database x has a transaction, the last of
\* its most recent block, that JSON cannot carry. updateBlockLoop shares no state with it
\* (it reads the chains, which no action changes, and logs its own calls) and
\* has its own specification, SpecTick.
Init ==
    /\ chain = [db \in Databases |->
                  IF db = <<"x">> THEN MkChain(db, <<2, 3>>, <<1, 2>>)
                                  ELSE MkChain(db, <<1>>, <<>>)]
    /\ queue = <<>>
    /\ cb = [p \in Producers |-> IdleCb]
    /\ loop = IdleLoop
    /\ upd = IdleUpd
    /\ tst = IdleTst
    /\ calls = NoCalls
    /\ env = NoEnv
    /\ life = Live

Next ==
    \/ \E p \in Producers, m \in Msgs : Receive(p, m)
    \/ \E p \in Producers : CallbackDecode(p)
    \/ \E p \in Producers : CallbackPush(p)
    \/ Dispatch
    \/ ReplayFor
    \/ ReplayRange
    \/ ReplayWait

Spec == Init /\ [][Next]_vars

\* one replay request, received by the callback, over one database's chain
InitReplay ==
    /\ \E sizes \in ChainSizes : \E nan \in NanChoices(sizes) :
         chain = [db \in {<<"x">>} |-> MkChain(db, sizes, nan)]
    /\ queue = <<>>
    /\ \E m \in ReplayMsgs :
         cb = [p \in Producers |->
                 IF p = "t1" THEN [IdleCb EXCEPT !.pc = "called", !.msg = m] ELSE IdleCb]
    /\ loop = IdleLoop
    /\ upd = IdleUpd
    /\ tst = IdleTst
    /\ calls = NoCalls
    /\ env = [NoEnv EXCEPT !.msgs = 1]
    /\ life = Live

NextReplay ==
    \/ \E p \in Producers : CallbackDecode(p)
    \/ \E p \in Producers : CallbackPush(p)
    \/ Dispatch
    \/ ReplayFor
    \/ ReplayRange
    \/ ReplayWait

SpecReplay == InitReplay /\ [][NextReplay]_vars

\* the replay requests whose last block is the largest int32
ReplayMaxMsgs ==
    {ReplayMsg(<<"a">>, <<"x">>, bStart, iStart, MaxInt32, iEnd) :
        bStart \in {MaxInt32 - 1, MaxInt32},
        iStart \in 0..MaxIndex, iEnd \in 0..MaxIndex}

\* one such request over one database's chain, with a transport and a chain
\* that do not fail
InitReplayMax ==
    /\ \E sizes \in ChainSizes : \E nan \in NanChoices(sizes) :
         chain = [db \in {<<"x">>} |-> MkChain(db, sizes, nan)]
    /\ queue = <<>>
    /\ \E m \in ReplayMaxMsgs :
         cb = [p \in Producers |->
                 IF p = "t1" THEN [IdleCb EXCEPT !.pc = "called", !.msg = m] ELSE IdleCb]
    /\ loop = IdleLoop
    /\ upd = IdleUpd
    /\ tst = IdleTst
    /\ calls = NoCalls
    /\ env = [NoEnv EXCEPT !.msgs = 1, !.faults = MaxFaults]
    /\ life = Live

\* the header of the block loop, followed for MaxRounds rounds
ReplayForBounded ==
    /\ Len(SelectSeq(calls["loop"], LAMBDA e : e.op = "FetchBlockByCount")) < MaxRounds
    /\ ReplayFor

NextReplayMax ==
    \/ \E p \in Producers : CallbackDecode(p)
    \/ \E p \in Producers : CallbackPush(p)
    \/ Dispatch
    \/ ReplayForBounded
    \/ ReplayRange
    \/ ReplayWait

SpecReplayMax == InitReplayMax /\ [][NextReplayMax]_vars

LoopStep == Dispatch \/ ReplayFor \/ ReplayRange \/ ReplayWait

\* the periodic publisher over two registered databases
InitTick ==
    /\ \E sizes \in TickSizes : \E nan \in NanChoices(sizes) :
       \E n \in 0..MaxTxs :
         chain = [db \in Databases |->
                    IF db = <<"x">> THEN MkChain(db, sizes, nan)
                                    ELSE MkChain(db, <<n>>, <<>>)]
    /\ queue = <<>>
    /\ cb = [p \in Producers |-> IdleCb]
    /\ loop = IdleLoop
    /\ upd = IdleUpd
    /\ tst = IdleTst
    /\ calls = NoCalls
    /\ env = NoEnv
    /\ life = Live

NextTick ==
    \/ Tick
    \/ UpdRange
    \/ UpdTxs
    \/ UpdWait

SpecTick == InitTick /\ [][NextTick]_vars

\* the periodic publisher over two databases with more than one block:
\* the most recent block of x holds three transactions, and JSON may be
\* unable to carry one transaction of x; the most recent block of y holds two
InitTickLatest ==
    /\ \E nan \in NanChoices(<<1, 3>>) :
         chain = [db \in Databases |->
                    IF db = <<"x">> THEN MkChain(db, <<1, 3>>, nan)
                                    ELSE MkChain(db, <<3, 1, 2>>, <<>>)]
    /\ queue = <<>>
    /\ cb = [p \in Producers |-> IdleCb]
    /\ loop = IdleLoop
    /\ upd = IdleUpd
    /\ tst = IdleTst
    /\ calls = NoCalls
    /\ env = NoEnv
    /\ life = Live

SpecTickLatest == InitTickLatest /\ [][NextTick]_vars

UpdStep == Tick \/ UpdRange \/ UpdTxs \/ UpdWait \/ UpdReturn

\* the periodic publisher and Close: database x with a block of two
\* transactions, the last of which JSON may be unable to carry, and database y.
\* The loop's goroutine is scheduled, its timer fires and its calls return.
InitTickClose ==
    /\ \E nan \in {<<>>, <<0, 1>>} :
         chain = [db \in Databases |->
                    IF db = <<"x">> THEN MkChain(db, <<2>>, nan)
                                    ELSE MkChain(db, <<1>>, <<>>)]
    /\ queue = <<>>
    /\ cb = [p \in Producers |-> IdleCb]
    /\ loop = IdleLoop
    /\ upd = IdleUpd
    /\ tst = IdleTst
    /\ calls = NoCalls
    /\ env = NoEnv
    /\ life = Live

NextTickClose ==
    \/ Tick
    \/ UpdRange
    \/ UpdTxs
    \/ UpdWait
    \/ UpdReturn
    \/ CloseCancel
    \/ CloseUnsubscribe
    \/ CloseQueue
    \/ CloseDisconnect

SpecTickClose == InitTickClose /\ [][NextTickClose]_vars /\ WF_vars(UpdStep)

\* the ingest path and Close, no collaborator failing; the loop's goroutine
\* is scheduled and its handlers' calls return
InitClose ==
    /\ chain = [db \in Databases |->
                  IF db = <<"x">> THEN MkChain(db, <<3, 2>>, <<1, 0>>)
                                  ELSE MkChain(db, <<1>>, <<>>)]
    /\ queue = <<>>
    /\ cb = [p \in Producers |-> IdleCb]
    /\ loop = IdleLoop
    /\ upd = IdleUpd
    /\ tst = IdleTst
    /\ calls = NoCalls
    /\ env = [NoEnv EXCEPT !.faults = MaxFaults]
    /\ life = Live

NextClose ==
    \/ \E p \in Producers, m \in CloseMsgs : Receive(p, m)
    \/ \E p \in Producers : CallbackDecode(p)
    \/ \E p \in Producers : CallbackPush(p)
    \/ Dispatch
    \/ ReplayFor
    \/ ReplayRange
    \/ ReplayWait
    \/ LoopExit
    \/ CloseCancel
    \/ CloseUnsubscribe
    \/ CloseQueue
    \/ CloseDisconnect

SpecClose == InitClose /\ [][NextClose]_vars /\ WF_vars(LoopStep \/ LoopExit)

\* one direct call of PublishDSN
InitPublishDSN ==
    /\ chain = [db \in Databases |-> MkChain(db, <<1>>, <<>>)]
    /\ queue = <<>>
    /\ cb = [p \in Producers |-> IdleCb]
    /\ loop = IdleLoop
    /\ upd = IdleUpd
    /\ \E a \in TstArgs : tst = [pc |-> "call", args |-> a, ret |-> nil]
    /\ calls = NoCalls
    /\ env = NoEnv
    /\ life = Live

NextPublishDSN ==
    \/ TstCall
    \/ TstWait

SpecPublishDSN == InitPublishDSN /\ [][NextPublishDSN]_vars

\* one message, of any topic, handed to the callback
InitDecode ==
    /\ chain = [db \in Databases |-> MkChain(db, <<1>>, <<>>)]
    /\ queue = <<>>
    /\ \E topic \in DecodeTopics :
         cb = [p \in Producers |->
                 IF p = "t1"
                 THEN [IdleCb EXCEPT !.pc = "called",
                                     !.msg = [topic |-> topic,
                                              payload |-> Bytes(ZeroPayload)]]
                 ELSE IdleCb]
    /\ loop = IdleLoop
    /\ upd = IdleUpd
    /\ tst = IdleTst
    /\ calls = NoCalls
    /\ env = [NoEnv EXCEPT !.msgs = 1]
    /\ life = Live

NextDecode ==
    \/ \E p \in Producers : CallbackDecode(p)
    \/ \E p \in Producers : CallbackPush(p)

SpecDecode == InitDecode /\ [][NextDecode]_vars

----------------------------------------------------------------------------
(* Reading the logs *)

Idx(t) == 1..Len(calls[t])

IsOp(t, i, op) == calls[t][i].op = op

\* the dispatch entry of the event at ptr
DispatchOf(ptr) ==
    calls["loop"][CHOOSE i \in Idx("loop") :
                      IsOp("loop", i, "dispatch") /\ calls["loop"][i].for = ptr]

\* the entries of thread t that called the transport's Publish
Sent(t) == {i \in Idx(t) : IsOp(t, i, "PublishDSN") /\ calls[t][i].sent}

RECURSIVE SelectIdx(_, _, _)
SelectIdx(t, i, S) ==
    IF i > Len(calls[t]) THEN <<>>
    ELSE (IF i \in S THEN <<i>> ELSE <<>>) \o SelectIdx(t, i + 1, S)

----------------------------------------------------------------------------
(* The ingest queue *)

(* C1: events pushed by one producer are dispatched in the order in which
   that producer pushed them: of two dispatched events of the same transport
   thread, the one pushed first (the lower push number) is dispatched first. *)

C1_ProducerOrderKept ==
    \A i, j \in Idx("loop") :
        /\ i < j
        /\ IsOp("loop", i, "dispatch") /\ IsOp("loop", j, "dispatch")
        /\ calls["loop"][i].for[1] = calls["loop"][j].for[1]
        => calls["loop"][i].for[2] < calls["loop"][j].for[2]

\* two events of one producer and, between them in the queue, an event of the
\* other producer were all dispatched
C1_Witness ==
    \E i, j, k \in Idx("loop") :
        /\ i < k /\ k < j
        /\ IsOp("loop", i, "dispatch") /\ IsOp("loop", j, "dispatch")
        /\ IsOp("loop", k, "dispatch")
        /\ calls["loop"][i].for[1] = calls["loop"][j].for[1]
        /\ calls["loop"][k].for[1] # calls["loop"][i].for[1]

----------------------------------------------------------------------------
\* the Query calls made for the event at ptr
QueriesFor(ptr) ==
    {i \in Idx("loop") : IsOp("loop", i, "Query") /\ calls["loop"][i].for = ptr}

(* C2: a dispatched Write event for a registered database produced exactly
   one Query request, on that database, whose header has query type write,
   the event's client as node, the event's database, connection 0 and the
   event's client sequence as sequence number, and whose statements are the
   event's. *)
C2_WriteProducesOneRequest ==
    \A i \in Idx("loop") :
        LET d == calls["loop"][i]
        IN  /\ IsOp("loop", i, "dispatch")
            /\ d.event.ApiName = MQTTWrite
            /\ d.event.DatabaseID \in DOMAIN chain
            => /\ Cardinality(QueriesFor(d.for)) = 1
               /\ \A q \in QueriesFor(d.for) :
                    /\ calls["loop"][q].db = d.event.DatabaseID
                    /\ calls["loop"][q].req =
                         [QueryType |-> "WriteQuery", NodeID |-> d.event.ClientID,
                          DatabaseID |-> d.event.DatabaseID, ConnectionID |-> 0,
                          SeqNo |-> d.event.Payload.ClientSequence,
                          Queries |-> d.event.Payload.Events]

\* the write of client a to database x with sequence number 7 was submitted
C2_Witness ==
    \E i \in Idx("loop") :
        /\ IsOp("loop", i, "Query")
        /\ calls["loop"][i].req.SeqNo = 7
        /\ calls["loop"][i].req.NodeID = <<"a">>
        /\ calls["loop"][i].req.Queries = <<Q("w")>>
        /\ calls["loop"][i].db = <<"x">>

----------------------------------------------------------------------------
(* Replay requests *)

\* the loop is in processReplayEvent
Replaying == loop.pc \in {"replayFor", "replayRange", "replayWait"}

\* the replay of the event at ptr ran to its end
ReplayEnded(ptr) == IF Replaying THEN loop.ptr # ptr ELSE TRUE

\* (b, i) <= (c, j) in the order of the chain
PosLeq(b, i, c, j) == b < c \/ (b = c /\ i <= j)

\* the positions of ch in the range of request req, in chain order
RECURSIVE PositionsFrom(_, _, _, _)
PositionsFrom(ch, req, b, i) ==
    IF b >= Len(ch) THEN <<>>
    ELSE IF i >= Len(ch[b + 1].QueryTxs) THEN PositionsFrom(ch, req, b + 1, 0)
    ELSE (IF /\ PosLeq(req.BlockStart, req.IndexStart, b, i)
             /\ PosLeq(b, i, req.BlockEnd, req.IndexEnd)
          THEN <<(<<b, i>>)>> ELSE <<>>) \o PositionsFrom(ch, req, b, i + 1)

\* the transaction of ch at position pos, as a payload
PayloadAt(ch, pos) ==
    LET qat == ch[pos[1] + 1].QueryTxs[pos[2] + 1]
    IN  [ZeroPayload EXCEPT !.BlockID = pos[1], !.BlockIndex = pos[2],
                            !.ClientID = qat.NodeID, !.ClientSequence = qat.SeqNo,
                            !.Events = qat.Queries]

\* the payloads published for the event at ptr, in order
PublishedFor(ptr) ==
    LET S == {i \in Sent("loop") : calls["loop"][i].for = ptr}
        idx == SelectIdx("loop", 1, S)
    IN  [k \in 1..Len(idx) |-> calls["loop"][idx[k]].payload]

\* no call made for the event at ptr failed
NoFailureFor(ptr) ==
    \A i \in Idx("loop") :
        calls["loop"][i].for = ptr =>
            /\ IsOp("loop", i, "FetchBlockByCount") => calls["loop"][i].err = nil
            /\ IsOp("loop", i, "PublishDSN") =>
                   calls["loop"][i].ret = nil /\ calls["loop"][i].tokenErr = nil

(* C3: a replay request whose range lies within the chain, handled to its
   end without a failure, published exactly the transactions of the chain
   whose (block, index) lies in the requested range, in chain order; on the
   chain with blocks [0,1,2] and [0,1] the request (0,1)-(1,0) published
   (0,1), (0,2), (1,0). *)
C3_ReplayPublishesRange ==
    \A i \in Idx("loop") :
        LET d == calls["loop"][i]
            ch == chain[d.event.DatabaseID]
            req == d.event.Payload
            want == PositionsFrom(ch, req, 0, 0)
        IN  /\ IsOp("loop", i, "dispatch")
            /\ d.event.ApiName = MQTTReplay
            /\ d.event.DatabaseID \in DOMAIN chain
            /\ req.BlockStart <= req.BlockEnd /\ req.BlockEnd < Len(ch)
            /\ ReplayEnded(d.for)
            /\ NoFailureFor(d.for)
            => PublishedFor(d.for) = [k \in 1..Len(want) |-> PayloadAt(ch, want[k])]

(* C4: every message published for a Replay event has the topic
   <publish-prefix>/<this-node>/<databaseID>/replay/<C>, C being the client
   of the Replay event. *)
C4_ReplayAddressedToRequester ==
    \A i \in Sent("loop") :
        LET e == calls["loop"][i]
            event == DispatchOf(e.for).event
        IN  e.topic = Join(<<EmptyStr, <<"c", "q", "l">>, <<"m", "i", "n", "e", "r">>,
                             thisNode, event.DatabaseID, MQTTReplay, event.ClientID>>,
                           Slash)

(* C5: for a well-formed request with blockStart <= blockEnd, no transaction
   whose index is greater than indexEnd is published in the last iterated
   block: while the publish of the transaction at loop.index is pending in
   the round of block blockEnd, loop.index is at most indexEnd. *)
C5_NothingPastIndexEnd ==
    /\ loop.pc = "replayWait"
    /\ loop.event.Payload.BlockStart <= loop.event.Payload.BlockEnd
    /\ PosLeq(loop.event.Payload.BlockStart, loop.event.Payload.IndexStart,
              loop.event.Payload.BlockEnd, loop.event.Payload.IndexEnd)
    /\ loop.blockIndex = loop.event.Payload.BlockEnd
    => loop.index <= loop.event.Payload.IndexEnd

----------------------------------------------------------------------------
(* PublishDSN called directly *)

\* the topic <publish-prefix>/<this-node>/<segments...>
OutTopic(segs) ==
    Join(<<EmptyStr, <<"c", "q", "l">>, <<"m", "i", "n", "e", "r">>, thisNode>> \o segs,
         Slash)

(* C6: a call of PublishDSN that reaches the transport publishes, for the
   intent newest, to <publish-prefix>/<this-node>/<databaseID>/newest whatever
   its requestClient argument is and, for the intent replay, to
   <publish-prefix>/<this-node>/<databaseID>/replay/<requestClient>; a call
   with one of these intents and a payload that marshals reaches the
   transport. *)
C6_PublishTopic ==
    \A i \in Idx("tst") :
        LET e == calls["tst"][i]
        IN  /\ e.apiName = MQTTNewest /\ e.sent
               => e.topic = OutTopic(<<e.databaseID, MQTTNewest>>)
            /\ e.apiName = MQTTReplay /\ e.sent
               => e.topic = OutTopic(<<e.databaseID, MQTTReplay, e.requestClient>>)
            /\ e.apiName \in {MQTTNewest, MQTTReplay} /\ jsonMarshal(e.payload).err = nil
               => e.sent

\* a newest publish was sent for a call that named a request client, and its
\* topic ends with the intent
C6_Witness ==
    \E i \in Idx("tst") :
        /\ calls["tst"][i].apiName = MQTTNewest
        /\ calls["tst"][i].sent
        /\ calls["tst"][i].requestClient = <<"a">>
        /\ calls["tst"][i].databaseID = <<"y">>
        /\ tst.pc = "returned"

(* C7: a call of PublishDSN with an intent other than newest and replay
   returns an error and makes no transport publish. *)
C7_OtherIntentIsError ==
    /\ \A i \in Idx("tst") :
         calls["tst"][i].apiName \notin {MQTTNewest, MQTTReplay}
         => ~calls["tst"][i].sent /\ calls["tst"][i].ret # nil
    /\ tst.pc = "returned" /\ tst.args.apiName \notin {MQTTNewest, MQTTReplay}
       => tst.ret # nil /\ Sent("tst") = {}

\* PublishDSN returned from a call with the intent write and a payload that
\* marshals
C7_Witness ==
    /\ tst.pc = "returned"
    /\ tst.args.apiName = MQTTWrite
    /\ jsonMarshal(tst.args.payload).err = nil

(* C8: when the transport completes a publish with an acknowledgement
   failure, PublishDSN returns an error. *)
C8_AckFailureReturned ==
    \A i \in Idx("tst") :
        LET e == calls["tst"][i]
        IN  e.sent /\ e.done /\ e.tokenErr # nil => e.ret # nil

----------------------------------------------------------------------------
(* The periodic publisher *)

\* the database an entry of updateBlockLoop's log is about
EntryDb(e) == IF e.op = "PublishDSN" THEN e.databaseID ELSE e.db

(* C9: once PublishDSN returned an error for a transaction of a database in a
   tick, no other database is fetched or published in that tick. *)
C9_TickHaltsAtFailedPublish ==
    \A i, j \in Idx("upd") :
        /\ i < j
        /\ IsOp("upd", i, "PublishDSN")
        /\ calls["upd"][i].ret # nil
        /\ calls["upd"][i].for = calls["upd"][j].for
        => EntryDb(calls["upd"][j]) = EntryDb(calls["upd"][i])

----------------------------------------------------------------------------
(* decodeTopicAPI *)

\* the positions of '/' in s
SlashAt(s) == {i \in 1..Len(s) : s[i] = Slash}

NumSegs(s) == Cardinality(SlashAt(s)) + 1

\* the k-th '/' of s, 0 for k = 0 and one past the end of s when there are
\* fewer
NthSlash(s, k) ==
    IF k = 0 THEN 0
    ELSE IF k > Cardinality(SlashAt(s)) THEN Len(s) + 1
    ELSE CHOOSE i \in SlashAt(s) : Cardinality({j \in SlashAt(s) : j < i}) = k - 1

\* the k-th '/'-separated segment of s
Seg(s, k) == SubSeq(s, NthSlash(s, k - 1) + 1, NthSlash(s, k) - 1)

Intents == {MQTTWrite, MQTTReplay, MQTTCreate}

(* C10: for a topic made of the listen prefix and 1 to 3 segments,
   decodeTopicAPI gives (segment 1, none, Invalid) for 1 segment; for 2
   segments (segment 1, none, create) when segment 2 is "create" and
   (segment 1, segment 2, Invalid) otherwise; for 3 segments (segment 1,
   segment 2, segment 3) when segment 3 is write, replay or create and
   (segment 1, segment 2, Invalid) otherwise. The intent it returns for any
   topic is write, replay, create or Invalid. *)
C10_DecodeBySegments ==
    \A p \in Producers :
        cb[p].pc = "decoded" =>
            LET topic == cb[p].msg.topic
                rest == SubSeq(topic, Len(listenPrefix) + 1, Len(topic))
                d == cb[p].decoded
            IN  /\ d.apiName \in Intents \cup {MQTTInvalid}
                /\ HasPrefix(topic, listenPrefix) /\ NumSegs(rest) = 1
                   => d = [clientID |-> Seg(rest, 1), databaseID |-> EmptyStr,
                           apiName |-> MQTTInvalid]
                /\ HasPrefix(topic, listenPrefix) /\ NumSegs(rest) = 2
                   => d = IF Seg(rest, 2) = MQTTCreate
                          THEN [clientID |-> Seg(rest, 1), databaseID |-> EmptyStr,
                                apiName |-> MQTTCreate]
                          ELSE [clientID |-> Seg(rest, 1), databaseID |-> Seg(rest, 2),
                                apiName |-> MQTTInvalid]
                /\ HasPrefix(topic, listenPrefix) /\ NumSegs(rest) = 3
                   => d = [clientID |-> Seg(rest, 1), databaseID |-> Seg(rest, 2),
                           apiName |-> IF Seg(rest, 3) \in Intents
                                       THEN Seg(rest, 3) ELSE MQTTInvalid]

\* the topic <listen-prefix>a/create was decoded to client a, no database and
\* the intent create
C10_Witness ==
    /\ cb["t1"].pc = "decoded"
    /\ cb["t1"].msg.topic = listenPrefix \o <<"a", "/">> \o MQTTCreate
    /\ cb["t1"].decoded = [clientID |-> <<"a">>, databaseID |-> EmptyStr,
                           apiName |-> MQTTCreate]

(* C11: decodeTopicAPI returns the empty client, the empty database and the
   intent Invalid for a topic with no segment (nothing after the listen
   prefix) and for a topic with more than 3 segments, the segments being the
   '/'-separated pieces of what follows the listen prefix, or of the whole
   topic when it lacks the prefix, an empty piece after a trailing '/'
   counting as one. *)
C11_NoOrTooManySegments ==
    \A p \in Producers :
        cb[p].pc = "decoded" =>
            LET topic == cb[p].msg.topic
                rest == IF HasPrefix(topic, listenPrefix)
                        THEN SubSeq(topic, Len(listenPrefix) + 1, Len(topic))
                        ELSE topic
            IN  rest = EmptyStr \/ NumSegs(rest) > 3
                => cb[p].decoded = [clientID |-> EmptyStr, databaseID |-> EmptyStr,
                                    apiName |-> MQTTInvalid]

\* the topic <listen-prefix>a/x/write/, of four segments by its trailing '/',
\* was decoded to nothing
C11_Witness ==
    /\ cb["t1"].pc = "decoded"
    /\ cb["t1"].msg.topic = listenPrefix \o <<"a", "/", "x", "/">> \o MQTTWrite \o <<"/">>
    /\ cb["t1"].decoded.apiName = MQTTInvalid
    /\ cb["t1"].decoded.clientID = EmptyStr

----------------------------------------------------------------------------
(* subscribeCallback *)

\* the message's topic decodes to Invalid or its payload is not a JSON
\* document
Rejected(m) == decodeTopicAPI(m.topic).apiName = MQTTInvalid \/ ~m.payload.json

\* the event the callback makes of a message it accepts
EventOf(m) ==
    LET d == decodeTopicAPI(m.topic)
    IN  [ApiName |-> d.apiName, ClientID |-> d.clientID, DatabaseID |-> d.databaseID,
         Payload |-> m.payload.doc]

\* the events of the messages that are not of this kind
AcceptedEvents == {EventOf(m) : m \in {n \in Msgs : ~Rejected(n)}}

(* C12: a message whose topic decodes to Invalid, or whose payload cannot be
   decoded, creates no event: the step in which the callback returns from
   such a message leaves the queue and the producer's count of pushed events
   unchanged, and every event a handler is chosen for is the event of a
   message that is not of this kind. *)
C12_RejectedMessageDropped ==
    [][/\ \A pr \in Producers :
            cb[pr].pc = "decoded" /\ cb'[pr].pc = "idle" /\ Rejected(cb[pr].msg)
            => queue' = queue /\ cb'[pr].pushed = cb[pr].pushed
       /\ \A i \in (Len(calls["loop"]) + 1)..Len(calls'["loop"]) :
            calls'["loop"][i].op = "dispatch"
            => calls'["loop"][i].event \in AcceptedEvents
      ]_vars

\* every message of the behaviour was received and its callback returned, no
\* event was pushed and no handler ran
C12_Witness ==
    /\ env.msgs = MaxMsgs
    /\ \A pr \in Producers : cb[pr].pc = "idle" /\ cb[pr].pushed = 0
    /\ queue = <<>>
    /\ calls["loop"] = <<>>

----------------------------------------------------------------------------
(* subscribeEventLoop *)

\* entry i of the loop's log shows a handler failing: a write or replay for a
\* database that is not registered, a failed Query, a failed fetch, or a
\* publish that returned an error or that the transport failed to deliver
IsFailure(i) ==
    LET e == calls["loop"][i]
    IN  CASE e.op = "dispatch" ->
               /\ e.handler \in {"processWriteEvent", "processReplayEvent"}
               /\ e.event.DatabaseID \notin DOMAIN chain
          [] e.op = "PublishDSN" -> e.ret # nil \/ e.tokenErr # nil
          [] OTHER -> e.err # nil

\* the event with push number k of producer pr was dispatched
Dispatched(pr, k) ==
    \E i \in Idx("loop") : IsOp("loop", i, "dispatch") /\ calls["loop"][i].for = <<pr, k>>

(* C13: once the handling of an event hit an unknown database, a failed
   Query, a failed fetch or a failed publish, the loop is still at its
   receive or inside a handler, it can take a step whenever the queue holds
   an event, and when it waits at its receive on an empty queue every event
   pushed so far has been dispatched. *)
C13_FailureLeavesLoopRunning ==
    (\E i \in Idx("loop") : IsFailure(i)) =>
        /\ loop.pc \in {"recv", "replayFor", "replayRange", "replayWait"}
        /\ queue # <<>> => ENABLED LoopStep
        /\ loop.pc = "recv" /\ queue = <<>>
           => \A pr \in Producers : \A k \in 1..cb[pr].pushed : Dispatched(pr, k)

\* a publish returned an error for one event and, after it, an event of the
\* same producer pushed behind it was dispatched
C13_Witness ==
    \E i, j \in Idx("loop") :
        /\ i < j
        /\ IsOp("loop", i, "PublishDSN") /\ calls["loop"][i].ret # nil
        /\ IsOp("loop", j, "dispatch")
        /\ calls["loop"][j].for[1] = calls["loop"][i].for[1]
        /\ calls["loop"][j].for[2] > calls["loop"][i].for[2]

----------------------------------------------------------------------------
(* updateBlockLoop and Close *)

\* a fetch or a publish of tick k failed
ErrorInTick(k) ==
    \E i \in Idx("upd") :
        /\ calls["upd"][i].for = k
        /\ IF IsOp("upd", i, "PublishDSN")
           THEN calls["upd"][i].ret # nil
           ELSE calls["upd"][i].err # nil

\* tick k has just begun: dbMap.Range is about to visit every registered
\* database
TickBegins(k) == env.ticks = k /\ upd.pc = "range" /\ upd.todo = DOMAIN chain

(* C14: while the latest tick is one in which a fetch or a publish failed,
   the loop eventually begins the next tick, unless updateCtx is cancelled,
   and that tick begins its iteration over every registered database, those
   visited in the failed tick included. *)
C14_FailedTickIsFollowed ==
    \A k \in 1..(MaxTicks - 1) :
        (env.ticks = k /\ ErrorInTick(k)) ~> (life.cancelled \/ TickBegins(k + 1))

\* the second tick begins after the fetch of the first database of the first
\* tick failed, and nobody called Close
C14_Witness ==
    /\ TickBegins(2)
    /\ ~life.cancelled
    /\ Len(calls["upd"]) = 1
    /\ calls["upd"][1].op = "FetchBlockByCount" /\ calls["upd"][1].err # nil

(* C17: once updateCtx is cancelled no tick begins: the tick count stays, a
   loop waiting at its select makes no call and can only return, every call
   logged from then on belongs to the tick that was running at the
   cancellation, and the loop eventually returns. *)
C17_CancelStopsTicks ==
    /\ [][life.cancelled =>
            /\ env.ticks' = env.ticks
            /\ upd.pc \in {"timer", "returned"}
               => calls'["upd"] = calls["upd"] /\ upd'.pc \in {upd.pc, "returned"}
            /\ \A i \in 1..Len(calls'["upd"]) :
                 i > Len(calls["upd"]) => calls'["upd"][i].for = env.ticks
         ]_vars
    /\ life.cancelled ~> upd.pc = "returned"

\* the loop returned after one tick, while Close, past its cancel, has not
\* yet unsubscribed
C17_Witness ==
    /\ upd.pc = "returned"
    /\ env.ticks = 1
    /\ Sent("upd") # {}
    /\ life.pc = "unsubscribe" /\ life.returned = 0

----------------------------------------------------------------------------
(* Close and the ingest queue *)

(* C15: however often Close is called, the ingest queue is closed at most
   once: a second call of Close does not close it again. *)
C15_QueueClosedOnce == life.closes <= 1

(* C16: the consumer loop has exited only with the queue empty and every
   event pushed into it dispatched, and once the queue is closed the loop
   eventually exits. *)
C16_LoopExitsDrained ==
    /\ [](loop.pc = "exited" =>
            /\ queue = <<>>
            /\ \A pr \in Producers : \A k \in 1..cb[pr].pushed : Dispatched(pr, k))
    /\ (life.closes > 0) ~> (loop.pc = "exited")

\* the loop exited after dispatching every message of the behaviour, the
\* replay among them
C16_Witness ==
    /\ loop.pc = "exited"
    /\ Cardinality({i \in Idx("loop") : IsOp("loop", i, "dispatch")}) = MaxMsgs
    /\ Sent("loop") # {}

\* the events a behaviour can push
Ptrs == Producers \X (1..MaxMsgs)

InQueue(ptr) == \E i \in 1..Len(queue) : queue[i].ptr = ptr

(* C18: every event pushed is at any time either once in the queue and not
   dispatched, or out of the queue and dispatched once, so that an event
   leaves the queue only into one handler; and a queue that holds events is
   eventually emptied by the loop unless it gets closed, so that every event
   in it is eventually dispatched. *)
C18_ConsumedExactlyOnce ==
    /\ [](\A ptr \in Ptrs :
            Cardinality({i \in 1..Len(queue) : queue[i].ptr = ptr})
            + Cardinality({i \in Idx("loop") :
                             IsOp("loop", i, "dispatch") /\ calls["loop"][i].for = ptr})
            = IF ptr[2] <= cb[ptr[1]].pushed THEN 1 ELSE 0)
    /\ (queue # <<>>) ~> (queue = <<>> \/ life.closes > 0)

\* with the queue open, the second event of a producer was dispatched while
\* an event of the other producer waits in the queue
C18_Witness ==
    /\ life.closes = 0
    /\ Dispatched("t1", 2)
    /\ \E k \in 1..MaxMsgs : InQueue(<<"t2", k>>)

----------------------------------------------------------------------------
(* Events for a database that is not registered *)

\* the entries of the loop's log made for the event at ptr
EntriesFor(ptr) == {j \in Idx("loop") : calls["loop"][j].for = ptr}

(* C19: for a dispatched Write event whose database is not registered the
   loop's log holds the dispatch and nothing else: no Query was submitted and
   PublishDSN was not called, so that nothing, error or acknowledgement, went
   out to the client. *)
C19_UnknownWriteDropped ==
    \A i \in Idx("loop") :
        LET d == calls["loop"][i]
        IN  /\ IsOp("loop", i, "dispatch")
            /\ d.event.ApiName = MQTTWrite
            /\ d.event.DatabaseID \notin DOMAIN chain
            => EntriesFor(d.for) = {i}

\* the write to the unregistered database z was dispatched and, after it, the
\* next event
C19_Witness ==
    \E i, j \in Idx("loop") :
        /\ i < j
        /\ IsOp("loop", i, "dispatch") /\ IsOp("loop", j, "dispatch")
        /\ calls["loop"][i].event.ApiName = MQTTWrite
        /\ calls["loop"][i].event.DatabaseID = UnknownDatabase

(* C20: for a dispatched Replay event whose database is not registered the
   loop's log holds the dispatch and nothing else, no block was fetched and
   PublishDSN was not called, and the loop is not in the replay of that
   event. *)
C20_UnknownReplayDoesNothing ==
    \A i \in Idx("loop") :
        LET d == calls["loop"][i]
        IN  /\ IsOp("loop", i, "dispatch")
            /\ d.event.ApiName = MQTTReplay
            /\ d.event.DatabaseID \notin DOMAIN chain
            => /\ EntriesFor(d.for) = {i}
               /\ ~Replaying

\* the replay request for blocks 0 to 1 of the unregistered database z was
\* dispatched and the loop is at its receive
C20_Witness ==
    /\ loop.pc = "recv"
    /\ \E i \in Idx("loop") :
         /\ IsOp("loop", i, "dispatch")
         /\ calls["loop"][i].event.ApiName = MQTTReplay
         /\ calls["loop"][i].event.DatabaseID = UnknownDatabase
         /\ calls["loop"][i].event.Payload.BlockStart = 0
         /\ calls["loop"][i].event.Payload.BlockEnd = 1

----------------------------------------------------------------------------
(* Failures inside a replay request and inside a tick *)

\* the publish logged at entry i of thread t failed: PublishDSN returned an
\* error or the transport's token completed with one
PublishFailed(t, i) ==
    /\ IsOp(t, i, "PublishDSN")
    /\ calls[t][i].done
    /\ calls[t][i].ret # nil \/ calls[t][i].tokenErr # nil

(* C21: after a publish made for a Replay event failed, the loop neither
   fetches a block nor publishes a transaction for that event again. *)
C21_ReplayAbortsAtFailedPublish ==
    \A i, j \in Idx("loop") :
        i < j /\ PublishFailed("loop", i) => calls["loop"][j].for # calls["loop"][i].for

----------------------------------------------------------------------------
(* One handler at a time *)

\* the events for which the loop published, as a set of queue positions
ReplaysPublished == {calls["loop"][i].for : i \in Sent("loop")}

(* C22: in the loop's log the publishes made for one Replay event are not
   separated by anything logged for another event: between two publishes for
   the same event every entry, dispatch or publish, is for that event, so
   that a replay dispatched later publishes only after the earlier one ended. *)
C22_ReplaysDoNotInterleave ==
    \A i, k \in Sent("loop") :
        calls["loop"][i].for = calls["loop"][k].for =>
            \A j \in Idx("loop") :
                i < j /\ j < k => calls["loop"][j].for = calls["loop"][i].for

\* two Replay events published, the first of them twice, and the second's
\* publish is the latest
C22_Witness ==
    \E i, j, k \in Sent("loop") :
        /\ i < j /\ j < k
        /\ calls["loop"][i].for = calls["loop"][j].for
        /\ calls["loop"][k].for # calls["loop"][i].for

----------------------------------------------------------------------------
(* No retry *)

\* what the publish logged at entry i of thread t carried, and for which
\* database
Published(t, i) == <<calls[t][i].databaseID, calls[t][i].payload>>

(* C23: the loop submitted at most one Query for each Write event, whether or
   not it failed, and what a failed publish carried is not handed to
   PublishDSN again for the same Replay event or in the same tick. *)
C23_NothingRetried ==
    /\ \A i \in Idx("loop") :
           IsOp("loop", i, "dispatch") => Cardinality(QueriesFor(calls["loop"][i].for)) <= 1
    /\ \A t \in {"loop", "upd"} : \A i, j \in Idx(t) :
           /\ i < j
           /\ PublishFailed(t, i)
           /\ IsOp(t, j, "PublishDSN")
           /\ calls[t][j].for = calls[t][i].for
           => Published(t, j) # Published(t, i)

----------------------------------------------------------------------------
(* What the broker publishes *)

\* the topics the broker may publish to: newest and replay topics below this
\* node's publish prefix
OutTopics ==
    LET dbs == Databases \cup {UnknownDatabase}
    IN  {OutTopic(<<db, MQTTNewest>>) : db \in dbs}
        \cup {OutTopic(<<db, MQTTReplay, c>>) : db \in dbs, c \in Clients \cup {EmptyStr}}

(* C24: every publish any thread handed to the transport was made by a call
   of PublishDSN with the intent newest or replay, and its topic is a newest
   or a replay topic below /cql/miner/<this node>/: no topic with the intent
   write or create, and none below the clients' prefix, is published. *)
C24_OnlyNewestAndReplayPublished ==
    \A t \in Threads : \A i \in Idx(t) :
        IsOp(t, i, "PublishDSN") /\ calls[t][i].sent =>
            /\ calls[t][i].apiName \in {MQTTNewest, MQTTReplay}
            /\ calls[t][i].topic \in OutTopics
            /\ Seg(calls[t][i].topic, 6) = calls[t][i].apiName
            /\ ~HasPrefix(calls[t][i].topic, listenPrefix)

\* a replay publish for client b on a database went out and completed
C24_Witness ==
    \E i \in Sent("tst") :
        /\ calls["tst"][i].apiName = MQTTReplay
        /\ calls["tst"][i].requestClient = <<"b">>
        /\ calls["tst"][i].done

----------------------------------------------------------------------------
(* A tick without failure *)

\* tick k ran to its end: dbMap.Range returned
TickEnded(k) == env.ticks > k \/ (env.ticks = k /\ upd.pc = "timer")

\* what updateBlockLoop logged in tick k
TickEntries(k) == {i \in Idx("upd") : calls["upd"][i].for = k}

\* no fetch and no publish of tick k failed
NoFailureInTick(k) ==
    \A i \in TickEntries(k) :
        IF IsOp("upd", i, "PublishDSN")
        THEN calls["upd"][i].ret = nil /\ calls["upd"][i].tokenErr = nil
        ELSE calls["upd"][i].err = nil

\* the fetches of database db in tick k
TickFetches(k, db) ==
    {i \in TickEntries(k) : IsOp("upd", i, "FetchBlockByCount") /\ calls["upd"][i].db = db}

\* the publishes for database db in tick k, in order
TickPublishes(k, db) ==
    SelectIdx("upd", 1, {i \in TickEntries(k) : /\ IsOp("upd", i, "PublishDSN")
                                                /\ calls["upd"][i].databaseID = db})

(* C25: after a tick in which neither a fetch nor a publish failed, the log
   of that tick holds for every registered database one fetch, at position
   -1, followed without any entry of another database in between by one
   publish for each transaction of the database's most recent block, in
   block order: a newest publish that went out on the database's newest
   topic with the block's count as BlockID, the transaction's position as
   BlockIndex and the transaction's node, sequence number and statements. *)
C25_TickPublishesLatestBlock ==
    \A k \in 1..MaxTicks :
        TickEnded(k) /\ NoFailureInTick(k) =>
            \A db \in DOMAIN chain :
                LET last == Len(chain[db]) - 1
                    txs == chain[db][last + 1].QueryTxs
                    pubs == TickPublishes(k, db)
                IN  /\ Cardinality(TickFetches(k, db)) = 1
                    /\ \A f \in TickFetches(k, db) :
                         /\ calls["upd"][f].count = -1
                         /\ \A n \in 1..Len(pubs) : pubs[n] = f + n
                    /\ Len(pubs) = Len(txs)
                    /\ \A n \in 1..Len(pubs) :
                         LET e == calls["upd"][pubs[n]]
                         IN  /\ e.apiName = MQTTNewest
                             /\ e.sent /\ e.done
                             /\ e.topic = OutTopic(<<db, MQTTNewest>>)
                             /\ e.payload = PayloadAt(chain[db], <<last, n - 1>>)
                             /\ e.bytes = Bytes(e.payload)

\* the second tick ended without a failure, after a first one which had
\* one, on databases whose most recent blocks hold three and two transactions
C25_Witness ==
    /\ TickEnded(2) /\ NoFailureInTick(2)
    /\ ~NoFailureInTick(1)
    /\ Len(TickPublishes(2, <<"x">>)) = 3
    /\ Len(TickPublishes(2, <<"y">>)) = 2

----------------------------------------------------------------------------
(* The rounds of a replay *)

\* the fetches logged for the event at ptr
FetchesFor(ptr) ==
    {f \in Idx("loop") : IsOp("loop", f, "FetchBlockByCount") /\ calls["loop"][f].for = ptr}

\* the value of blockIndex in the round of the block loop that logged entry
\* i: every round begins with one fetch, the first at BlockStart
RoundOf(i) ==
    LET ptr == calls["loop"][i].for
    IN  DispatchOf(ptr).event.Payload.BlockStart
        + Cardinality({f \in FetchesFor(ptr) : f <= i}) - 1

\* PublishDSN returned an error at one of the entries from to upto
ReturnedError(from, upto) ==
    \E i \in from..upto : IsOp("loop", i, "PublishDSN") /\ calls["loop"][i].ret # nil

(* C26: no call of PublishDSN made in the round of a replay's first block
   (blockIndex = BlockStart) is for a transaction whose index is below
   IndexStart; and in a round whose blockIndex is neither BlockStart nor
   BlockEnd the successful fetch is followed in the log, as far as the log
   goes and unless PublishDSN returned an error before, by one call of
   PublishDSN for each transaction of the fetched block, from index 0 on. *)
C26_FirstBlockSkipsMiddleBlockAll ==
    /\ \A i \in Idx("loop") :
         /\ IsOp("loop", i, "PublishDSN")
         /\ RoundOf(i) = DispatchOf(calls["loop"][i].for).event.Payload.BlockStart
         => calls["loop"][i].payload.BlockIndex
                >= DispatchOf(calls["loop"][i].for).event.Payload.IndexStart
    /\ \A f \in Idx("loop") :
         LET e == calls["loop"][f]
             req == DispatchOf(e.for).event.Payload
             txs == FetchBlockByCount(chain[e.db], e.count).block.QueryTxs
         IN  /\ IsOp("loop", f, "FetchBlockByCount")
             /\ e.err = nil
             /\ RoundOf(f) # req.BlockStart
             /\ RoundOf(f) # req.BlockEnd
             => \A k \in 1..Len(txs) :
                    f + k <= Len(calls["loop"]) /\ ~ReturnedError(f + 1, f + k - 1)
                    => /\ IsOp("loop", f + k, "PublishDSN")
                       /\ calls["loop"][f + k].for = e.for
                       /\ calls["loop"][f + k].payload.BlockIndex = k - 1

\* a request from (0, 1) to (2, 0): index 0 was skipped in the first round,
\* the second round published the block's three transactions and the round
\* of the last block began
C26_Witness ==
    \E f, g \in Idx("loop") :
        /\ IsOp("loop", f, "FetchBlockByCount") /\ IsOp("loop", g, "FetchBlockByCount")
        /\ RoundOf(f) = 1 /\ g = f + 4
        /\ DispatchOf(calls["loop"][f].for).event.Payload.BlockStart = 0
        /\ DispatchOf(calls["loop"][f].for).event.Payload.IndexStart = 1
        /\ DispatchOf(calls["loop"][f].for).event.Payload.BlockEnd = 2
        /\ DispatchOf(calls["loop"][f].for).event.Payload.IndexEnd = 0
        /\ \A k \in 1..3 : calls["loop"][f + k].sent
        /\ IsOp("loop", f - 3, "FetchBlockByCount")
        /\ calls["loop"][f - 2].payload.BlockIndex = 1

----------------------------------------------------------------------------
(* Failures inside a tick *)

(* C27: after a publish of a tick failed, nothing more is published in that
   tick, for the same database or for another. *)
C27_TickAbortsAtFailedPublish ==
    \A i, j \in Idx("upd") :
        /\ i < j
        /\ PublishFailed("upd", i)
        /\ IsOp("upd", j, "PublishDSN")
        /\ calls["upd"][j].for = calls["upd"][i].for
        => ~calls["upd"][j].sent

\* the fetch logged at entry i of thread t failed
FetchFailed(t, i) == IsOp(t, i, "FetchBlockByCount") /\ calls[t][i].err # nil

\* PublishDSN returned no error in tick k
NoPublishErrorInTick(k) ==
    \A i \in TickEntries(k) : IsOp("upd", i, "PublishDSN") => calls["upd"][i].ret = nil

\* nothing was published in an ended tick for a database whose fetch failed
NothingForFailedDatabase ==
    \A k \in 1..MaxTicks : \A f \in TickEntries(k) :
        TickEnded(k) /\ FetchFailed("upd", f) => TickPublishes(k, calls["upd"][f].db) = <<>>

\* after a fetch failed for a Replay event nothing more is logged for it
FailedFetchEndsReplay ==
    \A f, j \in Idx("loop") :
        f < j /\ FetchFailed("loop", f) => calls["loop"][j].for # calls["loop"][f].for

(* C28: when the fetch of database D's most recent block failed in a tick
   that has ended and in which PublishDSN returned no error, nothing was
   published for D in that tick and every other registered database was
   fetched in that tick; and after a fetch failed for a Replay event nothing
   more is logged for that event. *)
C28_FetchFailureAbandonsOneUnit ==
    /\ NothingForFailedDatabase
    /\ \A k \in 1..MaxTicks : \A f \in TickEntries(k) :
         TickEnded(k) /\ FetchFailed("upd", f) /\ NoPublishErrorInTick(k)
         => \A other \in DOMAIN chain : TickFetches(k, other) # {}
    /\ FailedFetchEndsReplay

----------------------------------------------------------------------------
(* Create events *)

\* the loop is about to receive a Create event
CreateIsNext ==
    /\ loop.pc = "recv"
    /\ queue # <<>>
    /\ Pop(queue).event.ApiName = MQTTCreate

(* C29: the step that dispatches a Create event removes that event from the
   queue, logs the dispatch and nothing else, leaves the registry, the chains
   and the fault budget as they are and ends with the loop at its receive;
   hence for a dispatched Create event the loop's log holds the dispatch
   only: no Query, no fetch and no publish. *)
C29_CreateDoesNothing ==
    /\ [](\A i \in Idx("loop") :
            IsOp("loop", i, "dispatch") /\ calls["loop"][i].event.ApiName = MQTTCreate
            => EntriesFor(calls["loop"][i].for) = {i})
    /\ [][CreateIsNext /\ calls'["loop"] # calls["loop"]
          => /\ queue' = Rest(queue)
             /\ Len(calls'["loop"]) = Len(calls["loop"]) + 1
             /\ SubSeq(calls'["loop"], 1, Len(calls["loop"])) = calls["loop"]
             /\ calls'["loop"][Len(calls["loop"]) + 1].op = "dispatch"
             /\ chain' = chain
             /\ env'.faults = env.faults
             /\ loop' = IdleLoop]_vars

\* a Create event for the registered database x was dispatched while another
\* event waited behind it, and the loop is at its receive
C29_Witness ==
    /\ loop.pc = "recv"
    /\ queue # <<>>
    /\ \E i \in Idx("loop") :
         /\ i = Len(calls["loop"])
         /\ IsOp("loop", i, "dispatch")
         /\ calls["loop"][i].event.ApiName = MQTTCreate
         /\ calls["loop"][i].event.DatabaseID = <<"x">>

----------------------------------------------------------------------------
(* A write behind a replay *)

\* the loop's log entries that dispatch a Replay event
ReplayDispatches ==
    {r \in Idx("loop") : /\ IsOp("loop", r, "dispatch")
                         /\ calls["loop"][r].event.ApiName = MQTTReplay}

\* the Query requests in the loop's log
Queries == {q \in Idx("loop") : IsOp("loop", q, "Query")}

(* C30: the loop receives the events in queue order, an event still in the
   queue has nothing logged for it, and a Query is logged only after
   everything logged for the Replay events dispatched before it: no fetch
   and no publish of such a replay follows the Query, and while a replay is
   running, its publish pending or not, no Query has been logged since its
   dispatch. *)
C30_WriteWaitsForReplay ==
    /\ [](\A n \in 1..Len(queue) : EntriesFor(queue[n].ptr) = {})
    /\ [](\A q \in Queries : \A r \in ReplayDispatches :
            r < q => \A e \in EntriesFor(calls["loop"][r].for) : e < q)
    /\ [](Replaying =>
            \A q \in Queries : \A r \in ReplayDispatches :
                calls["loop"][r].for = loop.ptr => q < r)
    /\ [][\A i \in (Len(calls["loop"]) + 1)..Len(calls'["loop"]) :
            calls'["loop"][i].op = "dispatch"
            => queue # <<>> /\ calls'["loop"][i].for = queue[1].ptr]_vars

\* the Query of the Write event queued by t2 directly follows what was
\* logged for the Replay event queued by t1: its dispatch, its fetch, its two
\* publishes and the PublishDSN call that ended it
C30_Witness ==
    \E r \in ReplayDispatches : \E q \in Queries :
        /\ calls["loop"][r].for = <<"t1", 1>>
        /\ calls["loop"][q].for = <<"t2", 1>>
        /\ Cardinality({e \in Sent("loop") : calls["loop"][e].for = <<"t1", 1>> /\ e < q}) = 2
        /\ q = r + 6

----------------------------------------------------------------------------
(* Reads and writes of the chain *)

\* the calls a handler or the periodic loop makes that only read a chain or
\* hand a message to the transport
ReadOps == {"FetchBlockByCount", "PublishDSN"}

(* C31: a Query is logged by the loop only, and only for a Write event; what
   is logged for a Replay event besides its dispatch, and everything the
   periodic loop logs, is a fetch or a call of PublishDSN; and no step of
   the broker changes the set of registered databases or a block of a
   chain. *)
C31_OnlyWritesReachTheExecutor ==
    /\ [](\A t \in Threads : \A i \in Idx(t) :
            IsOp(t, i, "Query") =>
                /\ t = "loop"
                /\ DispatchOf(calls[t][i].for).event.ApiName = MQTTWrite)
    /\ [](\A i \in Idx("loop") :
            /\ ~IsOp("loop", i, "dispatch")
            /\ DispatchOf(calls["loop"][i].for).event.ApiName = MQTTReplay
            => calls["loop"][i].op \in ReadOps)
    /\ [](\A i \in Idx("upd") : calls["upd"][i].op \in ReadOps)
    /\ [][chain' = chain]_vars

\* a replay fetched and published, and a write was submitted to the executor
C31_Witness ==
    /\ \E i \in Sent("loop") : i > 1 /\ IsOp("loop", i - 1, "FetchBlockByCount")
    /\ \E q \in Queries : calls["loop"][q].err = nil

----------------------------------------------------------------------------
(* Publishes in flight *)

\* the publishes of thread t handed to the transport and not yet completed
InFlight(t) == {i \in Sent(t) : ~calls[t][i].done}

\* thread t is inside PublishDSN, at token.Wait()
AtTokenWait(t) ==
    CASE t = "loop" -> loop.pc = "replayWait"
      [] t = "upd" -> upd.pc = "wait"
      [] OTHER -> tst.pc = "wait"

(* C32: each thread has at most one publish in flight; a publish in flight is
   the thread's latest call, and the thread is then inside PublishDSN waiting
   for the token, so that it made no call since and PublishDSN has not
   returned; every earlier publish of the thread has completed. *)
C32_PublishIsSynchronous ==
    \A t \in Threads :
        /\ Cardinality(InFlight(t)) <= 1
        /\ \A i \in InFlight(t) : i = Len(calls[t]) /\ AtTokenWait(t)
        /\ AtTokenWait(t) => InFlight(t) = {Len(calls[t])}

\* the second publish of a replay is in flight after its first one was
\* completed with a delivery failure
C32_Witness ==
    \E i \in InFlight("loop") :
        /\ i > 1
        /\ calls["loop"][i - 1].for = calls["loop"][i].for
        /\ IsOp("loop", i - 1, "PublishDSN")
        /\ calls["loop"][i - 1].done
        /\ calls["loop"][i - 1].tokenErr # nil

----------------------------------------------------------------------------
(* The intents in the queue *)

\* a topic without the listen prefix, if it has it
AfterListenPrefix(topic) ==
    IF HasPrefix(topic, listenPrefix)
    THEN SubSeq(topic, Len(listenPrefix) + 1, Len(topic))
    ELSE topic

\* event is what a callback may push for a message with this topic
PushedFrom(event, topic) ==
    LET rest == AfterListenPrefix(topic)
    IN  /\ event.ApiName \in Intents
        /\ event.ClientID = Seg(rest, 1)
        /\ event.ApiName \in {MQTTWrite, MQTTReplay}
           => /\ NumSegs(rest) = 3
              /\ Seg(rest, 3) = event.ApiName
              /\ event.DatabaseID = Seg(rest, 2)
        /\ event.ApiName = MQTTCreate
           => \/ NumSegs(rest) = 2 /\ Seg(rest, 2) = MQTTCreate /\ event.DatabaseID = EmptyStr
              \/ NumSegs(rest) = 3 /\ Seg(rest, 3) = MQTTCreate /\ event.DatabaseID = Seg(rest, 2)

(* C33: every event in the queue has the intent write, replay or create, so
   that the loop's switch finds a handler for it, and no dispatch ever took
   the branch of an unknown intent; the event a callback pushes has the
   intent write or replay only for a topic of three segments after the
   listen prefix, whose third segment is that intent, and the intent create
   for such a topic or for one of two segments, and then with no database. *)
C33_QueuedIntentsAreKnown ==
    /\ [](\A n \in 1..Len(queue) :
            /\ queue[n].event.ApiName \in Intents
            /\ Handler(queue[n].event.ApiName) # "unknown")
    /\ [](\A i \in Idx("loop") :
            IsOp("loop", i, "dispatch") => calls["loop"][i].handler # "unknown")
    /\ [][\A p \in Producers :
            cb[p].pc = "decoded" /\ cb'[p] # cb[p] /\ Len(queue') > Len(queue)
            => /\ Len(queue') = Len(queue) + 1
               /\ PushedFrom(queue'[Len(queue')].event, cb[p].msg.topic)]_vars

\* the queue holds a Create event without a database, pushed for the topic
\* <listen-prefix>a/create
C33_Witness ==
    /\ Len(queue) = 1
    /\ queue[1].event.ApiName = MQTTCreate
    /\ queue[1].event.DatabaseID = EmptyStr
    /\ queue[1].event.ClientID = <<"a">>

----------------------------------------------------------------------------
(* The block counter of a replay *)

(* C34: while a replay runs without a failed fetch or publish, its block
   counter has not wrapped around: it is not below the request's BlockStart. *)
C34_BlockCounterDoesNotWrap ==
    Replaying /\ NoFailureFor(loop.ptr)
    => loop.blockIndex >= loop.event.Payload.BlockStart

----------------------------------------------------------------------------
(* Consecutive ticks *)

\* the publishes of tick k that went out
TickSent(k) == {i \in Sent("upd") : calls["upd"][i].for = k}

(* C35: the chains being the same in two consecutive ticks, whatever went
   out in a tick goes out again, for the same database and with the same
   payload, in the next tick when that tick ends without a failed fetch or
   publish; and a tick that ends without failure publishes as many messages
   for a database as its most recent block has transactions, whatever was
   published before. *)
C35_TickRepublishesUnchangedBlock ==
    \A k \in 1..(MaxTicks - 1) :
        TickEnded(k + 1) /\ NoFailureInTick(k + 1) =>
            /\ \A i \in TickSent(k) :
                 \E j \in TickSent(k + 1) : Published("upd", j) = Published("upd", i)
            /\ \A db \in DOMAIN chain :
                 Len(TickPublishes(k + 1, db)) = Len(chain[db][Len(chain[db])].QueryTxs)

\* the three transactions of x's most recent block and the two of y's went
\* out in the first tick and again in the second
C35_Witness ==
    /\ TickEnded(2) /\ NoFailureInTick(1) /\ NoFailureInTick(2)
    /\ Cardinality(TickSent(1)) = 5
    /\ Cardinality(TickSent(2)) = 5
    /\ \A i \in TickSent(1) : \E j \in TickSent(2) : Published("upd", j) = Published("upd", i)

----------------------------------------------------------------------------
(* Callbacks and Close *)

(* C36: no callback has called Push on the queue after Close closed it. *)
C36_NoPushAfterClose == life.late = 0

----------------------------------------------------------------------------
(* The database of an outbound topic *)

\* the fetch whose block the publish logged at entry i of thread t is made
\* from: the latest fetch of the thread before i
FetchBefore(t, i) ==
    CHOOSE f \in 1..(i - 1) :
        /\ IsOp(t, f, "FetchBlockByCount")
        /\ \A g \in (f + 1)..(i - 1) : ~IsOp(t, g, "FetchBlockByCount")

(* C37: the database segment of the topic of every publish that went out is
   the database whose chain the publishing thread fetched the block from:
   for the periodic loop the registry key it was visiting, for a replay the
   database of the Replay event. *)
C37_TopicNamesTheDatabaseRead ==
    \A t \in {"loop", "upd"} : \A i \in Sent(t) :
        LET f == calls[t][FetchBefore(t, i)]
        IN  /\ f.for = calls[t][i].for
            /\ f.db \in DOMAIN chain
            /\ Seg(calls[t][i].topic, 5) = f.db
            /\ calls[t][i].databaseID = f.db
            /\ t = "loop" => DispatchOf(calls[t][i].for).event.DatabaseID = f.db

\* in one tick a message went out on a topic of x and one on a topic of y
C37_Witness ==
    \E i, j \in Sent("upd") :
        /\ calls["upd"][i].for = calls["upd"][j].for
        /\ Seg(calls["upd"][i].topic, 5) = <<"x">>
        /\ Seg(calls["upd"][j].topic, 5) = <<"y">>

====
